---------------------------- MODULE Spec2Model ----------------------------
(***************************************************************************)
(* Model of pysymoro/fldyn.py: the composite Newton-Euler inverse dynamic  *)
(* recursion (composite_newton_euler) and the articulated direct dynamic   *)
(* recursion (direct_dynamic_model) for fixed and floating base robots.    *)
(*                                                                         *)
(* The program manipulates sympy expressions.  The model runs it on exact  *)
(* numeric inputs: every expression is then a sympy number, represented    *)
(* here as a pair <<n, d>> (numerator, denominator) in lowest terms, with  *)
(* sympy's zoo (1/0) as <<1, 0>> and sympy's nan (0*zoo) as <<0, 0>>.      *)
(* A symbol created by the symbol manager stands for the value of the      *)
(* expression it names.                                                    *)
(***************************************************************************)
EXTENDS Integers, Sequences, FiniteSets, TLC

(***************************************************************************)
(* Bounds of the model.                                                    *)
(***************************************************************************)
\* number of links of the robots explored (robo.NL), base included; at least 2
NL == 3
\* largest numerator or denominator of a number of the model
MaxNum == 1000000000

Links == 0 .. (NL - 1)
Joints == 1 .. (NL - 1)

(***************************************************************************)
(* Exact sympy numbers.  sympy's integers are unbounded; the model keeps   *)
(* numerators and denominators of at most MaxNum, and the result of a sum  *)
(* or product whose terms exceed MaxNum is OutOfRange.  A step of a call   *)
(* that would store an OutOfRange number is not taken: the model does not  *)
(* follow the call beyond the numbers it can represent.                    *)
(***************************************************************************)
Abs(n) == IF n < 0 THEN -n ELSE n

RECURSIVE GCD(_, _)
GCD(a, b) == IF b = 0 THEN a ELSE GCD(b, a % b)

OutOfRange == <<0, -1>>
Fits(n) == -MaxNum <= n /\ n <= MaxNum
\* the product a * b is at most MaxNum
Small(a, b) == b = 0 \/ Abs(a) <= MaxNum \div Abs(b)

\* the canonical form sympy keeps a Rational in; n/0 is zoo, 0/0 is nan
Norm(n, d) ==
    IF d = 0 THEN (IF n = 0 THEN <<0, 0>> ELSE <<1, 0>>)
    ELSE IF d = 1 THEN <<n, 1>>
    ELSE LET g == GCD(Abs(n), Abs(d))
             s == IF d < 0 THEN -1 ELSE 1
         IN  <<(s * n) \div g, (s * d) \div g>>

Q(n) == <<n, 1>>
Zero == <<0, 1>>
One == <<1, 1>>
IsFinite(x) == x[2] > 0
IsZero(x) == x[1] = 0 /\ x[2] > 0
InRange(x) == x[2] >= 0

\* sums and products cancel common factors before they multiply, as exact
\* rational arithmetic does; a zero denominator (zoo, nan) takes the plain rule
AddFrac(x, y, sgn) ==
    IF x[2] < 0 \/ y[2] < 0 THEN OutOfRange
    ELSE IF x[2] = 0 \/ y[2] = 0
    THEN Norm((IF x[1] = 0 THEN 0 ELSE 1) * y[2] + sgn * (IF y[1] = 0 THEN 0 ELSE 1) * x[2],
              x[2] * y[2])
    ELSE LET g == GCD(x[2], y[2])
             xd == x[2] \div g
             yd == y[2] \div g
         IN  IF Small(x[1], yd) /\ Small(y[1], xd) /\ Small(xd, y[2])
             THEN Norm(x[1] * yd + sgn * y[1] * xd, xd * y[2])
             ELSE OutOfRange

Add(x, y) ==
    IF x[2] = 1 /\ y[2] = 1
    THEN (IF Fits(x[1]) /\ Fits(y[1]) THEN <<x[1] + y[1], 1>> ELSE OutOfRange)
    ELSE AddFrac(x, y, 1)

Neg(x) == <<-x[1], x[2]>>

Sub(x, y) ==
    IF x[2] = 1 /\ y[2] = 1
    THEN (IF Fits(x[1]) /\ Fits(y[1]) THEN <<x[1] - y[1], 1>> ELSE OutOfRange)
    ELSE AddFrac(x, y, -1)

Mul(x, y) ==
    IF x[2] = 1 /\ y[2] = 1
    THEN (IF Small(x[1], y[1]) THEN <<x[1] * y[1], 1>> ELSE OutOfRange)
    ELSE IF x[2] < 0 \/ y[2] < 0 THEN OutOfRange
    ELSE IF x[2] = 0 \/ y[2] = 0 \/ x[1] = 0 \/ y[1] = 0
    THEN Norm((IF x[1] = 0 THEN 0 ELSE 1) * (IF y[1] = 0 THEN 0 ELSE 1),
              (IF x[2] = 0 THEN 0 ELSE 1) * (IF y[2] = 0 THEN 0 ELSE 1))
    ELSE LET g1 == GCD(Abs(x[1]), y[2])
             g2 == GCD(Abs(y[1]), x[2])
             xn == x[1] \div g1
             yn == y[1] \div g2
             xd == x[2] \div g2
             yd == y[2] \div g1
         IN  IF Small(xn, yn) /\ Small(xd, yd)
             THEN <<xn * yn, xd * yd>>
             ELSE OutOfRange

\* 1 / x
Recip(x) == IF x[2] < 0 THEN OutOfRange ELSE Norm(x[2], x[1])

\* sympy.sign of a real number
Sign(x) == IF x[1] > 0 THEN One ELSE IF x[1] < 0 THEN Q(-1) ELSE Zero

(***************************************************************************)
(* sympy Matrix algebra.  A matrix is a tuple of rows, a column vector a   *)
(* tuple of numbers.                                                       *)
(***************************************************************************)
\* the tuple <<F(1), ..., F(n)>>, for the sizes the program uses
Tup(F(_), n) ==
    IF n = 3 THEN <<F(1), F(2), F(3)>>
    ELSE IF n = 6 THEN <<F(1), F(2), F(3), F(4), F(5), F(6)>>
    ELSE <<F(1), F(2), F(3), F(4), F(5), F(6), F(7), F(8), F(9), F(10), F(11), F(12)>>

\* the n by m matrix of the entries F(r, c)
Mat(F(_, _), n, m) == Tup(LAMBDA r : Tup(LAMBDA c : F(r, c), m), n)

RECURSIVE DotTo(_, _, _)
DotTo(u, v, n) == IF n = 0 THEN Zero ELSE Add(DotTo(u, v, n - 1), Mul(u[n], v[n]))

Dot(u, v) == DotTo(u, v, Len(u))

RECURSIVE MulTo(_, _, _, _, _)
MulTo(A, B, r, c, n) ==
    IF n = 0 THEN Zero ELSE Add(MulTo(A, B, r, c, n - 1), Mul(A[r][n], B[n][c]))

MatMul(A, B) == Mat(LAMBDA r, c : MulTo(A, B, r, c, Len(B)), Len(A), Len(B[1]))

MatVec(A, v) == Tup(LAMBDA r : Dot(A[r], v), Len(A))

Transpose(A) == Mat(LAMBDA r, c : A[c][r], Len(A[1]), Len(A))

MatAdd(A, B) == Mat(LAMBDA r, c : Add(A[r][c], B[r][c]), Len(A), Len(A[1]))

MatSub(A, B) == Mat(LAMBDA r, c : Sub(A[r][c], B[r][c]), Len(A), Len(A[1]))

MatScale(k, A) == Mat(LAMBDA r, c : Mul(k, A[r][c]), Len(A), Len(A[1]))

VecAdd(u, v) == Tup(LAMBDA r : Add(u[r], v[r]), Len(u))

VecSub(u, v) == Tup(LAMBDA r : Sub(u[r], v[r]), Len(u))

VecScale(k, v) == Tup(LAMBDA r : Mul(k, v[r]), Len(v))

VecNeg(v) == Tup(LAMBDA r : Neg(v[r]), Len(v))

\* u * v.transpose()
Outer(u, v) == Mat(LAMBDA r, c : Mul(u[r], v[c]), Len(u), Len(v))

zeros(n, m) == Mat(LAMBDA r, c : Zero, n, m)

zvec(n) == Tup(LAMBDA r : Zero, n)

eye(n) == Mat(LAMBDA r, c : IF r = c THEN One ELSE Zero, n, n)

\* Matrix([[A, B], [C, D]]) from four 3x3 blocks (row_join and stacking)
Blocks(A, B, C, D) ==
    Mat(LAMBDA r, c :
            IF r <= 3 THEN (IF c <= 3 THEN A[r][c] ELSE B[r][c - 3])
            ELSE (IF c <= 3 THEN C[r - 3][c] ELSE D[r - 3][c - 3]),
        6, 6)

\* Matrix([u, v]) from two 3x1 columns
Stack(u, v) == <<u[1], u[2], u[3], v[1], v[2], v[3]>>


\* tools.skew: the cross-product matrix of a 3-vector
skew(v) ==
    << <<Zero, Neg(v[3]), v[2]>>,
       <<v[3], Zero, Neg(v[1])>>,
       <<Neg(v[2]), v[1], Zero>> >>

IsSymmetric(A) == \A r \in 1 .. Len(A) : \A c \in 1 .. Len(A) : A[r][c] = A[c][r]

\* no entry is OutOfRange
VecOK(v) == \A m \in 1 .. Len(v) : InRange(v[m])
MatOK(A) == \A r \in 1 .. Len(A) : VecOK(A[r])


\* Matrix.inv() by Gauss-Jordan reduction of [A | I]: the reduced matrix, or
\* <<>> when a column has no pivot (sympy raises "Matrix det == 0")
RECURSIVE RrefFrom(_, _)
RrefFrom(A, c) ==
    IF c > Len(A) THEN A
    ELSE LET cand == {r \in c .. Len(A) : ~IsZero(A[r][c])}
         IN  IF cand = {} THEN <<>>
             ELSE LET p == CHOOSE r \in cand : \A r2 \in cand : r <= r2
                      k == Recip(A[p][c])
                      rowc == Tup(LAMBDA m : Mul(k, A[p][m]), Len(A[p]))
                      src(r) == IF r = c THEN p ELSE IF r = p THEN c ELSE r
                      B == Mat(LAMBDA r, m :
                                   IF r = c THEN rowc[m]
                                   ELSE IF IsZero(A[src(r)][c]) THEN A[src(r)][m]
                                   ELSE Sub(A[src(r)][m], Mul(A[src(r)][c], rowc[m])),
                               Len(A), Len(A[1]))
                  IN  RrefFrom(B, c + 1)

Augment(A) ==
    Mat(LAMBDA r, c : IF c <= Len(A) THEN A[r][c] ELSE IF c - Len(A) = r THEN One ELSE Zero,
        Len(A), 2 * Len(A))

\* <<>> when the matrix is singular
inv(A) ==
    LET red == RrefFrom(Augment(A), 1)
    IN  IF red = <<>> THEN <<>>
        ELSE Mat(LAMBDA r, c : red[r][c + Len(A)], Len(A), Len(A))

(***************************************************************************)
(* The symbol manager.  mat_replace names the entries of a matrix and      *)
(* returns the matrix of names, each standing for the entry it replaces;   *)
(* with symmet the entries above the diagonal are not named but copied     *)
(* from below it.                                                          *)
(***************************************************************************)
mat_replace_symmet(A) ==
    Mat(LAMBDA r, c : IF r < c THEN A[c][r] ELSE A[r][c], Len(A), Len(A))

(***************************************************************************)
(* The robot model.  A robot is a record holding the fields of robo that   *)
(* the recursions read; links are numbered 0 .. NL-1 and link 0 is the     *)
(* base.                                                                   *)
(***************************************************************************)
IVec(a, b, c) == <<Q(a), Q(b), Q(c)>>

\* rotational inertia tensor, first moments and mass of link j
LinkJ(k, j) ==
    << <<Q(3 * k), Zero, Q(k)>>,
       <<Zero, Q(4 * k), Zero>>,
       <<Q(k), Zero, Q(2 * k)>> >>

LinkMS(k, j) == IVec(k, 0, 0)

\* actuator inertia and friction coefficient of every joint: none, or some
DynValues == {0, 1}

\* scale of the rotational inertia and first moments of every link: point
\* masses at the frame origins, or bodies
InertiaValues == {0, 1}

\* the robots explored: every link hangs off the base by a revolute joint,
\* but for one link, whose parent is any link (itself included) and whose
\* joint is of any kind (a kind the program has no rule for included)
Robot(d, p, s, floating, dyn, k) ==
    [ant |-> [j \in Links |-> IF j = 0 THEN -1 ELSE IF j = d THEN p ELSE 0],
     sigma |-> [j \in Links |-> IF j = d THEN s ELSE 0],
     is_floating |-> floating,
     M |-> [j \in Links |-> Q(2)],
     MS |-> [j \in Links |-> LinkMS(k, j)],
     J |-> [j \in Links |-> LinkJ(k, j)],
     IA |-> [j \in Links |-> Q(dyn)],
     FS |-> [j \in Links |-> Q(dyn)],
     FV |-> [j \in Links |-> Q(2 * dyn)],
     Fex |-> [j \in Links |-> IVec(1, 0, 0)],
     Nex |-> [j \in Links |-> IVec(0, 0, j)],
     qdot |-> [j \in Links |-> Q(1)],
     qddot |-> [j \in Links |-> Q(j + 1)],
     GAM |-> [j \in Links |-> Q(j)],
     G |-> IVec(0, 0, -2),
     vdot0 |-> IVec(1, 0, 0),
     w0 |-> IVec(0, 0, 1),
     wdot0 |-> IVec(0, 1, 0)]

Robots ==
    {Robot(d, p, s, f, dyn, k) :
        d \in Joints, p \in Links, s \in 0 .. 3, f \in BOOLEAN,
        dyn \in DynValues, k \in InertiaValues}

\* geometry.compute_rot_trans: rotation and translation of frame j in the
\* frame of its parent (a quarter turn about x for odd j, about z for even j)
antRj(j) ==
    IF j % 2 = 1
    THEN << <<One, Zero, Zero>>, <<Zero, Zero, Q(-1)>>, <<Zero, One, Zero>> >>
    ELSE << <<Zero, Q(-1), Zero>>, <<One, Zero, Zero>>, <<Zero, Zero, One>> >>

antPj(j) == IVec(0, 0, j)


VARIABLES
    robo,               \* the robot model handed to the call
    call,               \* "none", "cne" (composite_newton_euler), "ddm" (direct_dynamic_model)
    round_trip,         \* the direct model runs on the torques of the inverse model
    pc,                 \* the loop of the call that is running
    j,                  \* the loop variable
    w, wi, jaj, grandJ, jTant, gamma, beta, zeta,
    composite_inertia, composite_beta, comp_inertia3, comp_ms, comp_mass,
    h_inv, jah, tau, star_inertia, star_beta, qddot,
    grandVp, react_wrench, torque,
    contributed,        \* links whose step of the second backward recursion has run
    accelerated,        \* links whose grandVp has been computed
    early_read,         \* an aggregate was read before a child had contributed to it
    before_replace,     \* the matrix last handed to mat_replace(symmet=True), as it was
    solves              \* number of Matrix.inv() calls of the call

kin == <<w, wi, jaj, grandJ, jTant, gamma, beta, zeta>>
cne == <<composite_inertia, composite_beta, comp_inertia3, comp_ms, comp_mass>>
ddm == <<h_inv, jah, tau, star_inertia, star_beta, qddot>>
outs == <<grandVp, react_wrench, torque>>
hist == <<contributed, accelerated, early_read, solves>>
vars == <<robo, call, round_trip, pc, j, kin, cne, ddm, outs, hist, before_replace>>

\* a container of a call that is not running
None == <<>>

Children(i) == {k \in Joints : robo.ant[k] = i}

(***************************************************************************)
(* ParamsInit: the per-link containers a call starts from.                 *)
(***************************************************************************)
init_vec(n) == [k \in Links |-> zvec(n)]
init_mat(n) == [k \in Links |-> zeros(n, n)]
init_scalar == [k \in Links |-> Zero]
init_w == [k \in Links |-> IF k = 0 THEN robo.w0 ELSE zvec(3)]

\* robo.fric_s, robo.fric_v, robo.tau_ia
fric_s(k) == Mul(robo.FS[k], Sign(robo.qdot[k]))
fric_v(k) == Mul(robo.FV[k], robo.qdot[k])
tau_ia(k) == Mul(robo.IA[k], robo.qddot[k])

(***************************************************************************)
(* The internal functions of fldyn.py, each as the value it stores.        *)
(***************************************************************************)
\* inertia_spatial with the same first-moment block above and below the diagonal
inertia_spatial_no_transpose(inertia, ms_tensor, mass) ==
    Blocks(MatScale(mass, eye(3)), skew(ms_tensor), skew(ms_tensor), inertia)

inertia_spatial(inertia, ms_tensor, mass) ==
    Blocks(MatScale(mass, eye(3)), Transpose(skew(ms_tensor)), skew(ms_tensor), inertia)

compute_beta(k, w_) ==
    LET expr1 == MatVec(robo.J[k], w_[k])
        expr2 == MatVec(skew(w_[k]), expr1)
        expr3 == MatVec(skew(w_[k]), robo.MS[k])
        expr4 == MatVec(skew(w_[k]), expr3)
        expr5 == VecSub(VecNeg(robo.Nex[k]), expr2)
        expr6 == VecSub(VecNeg(robo.Fex[k]), expr4)
    IN  Stack(expr6, expr5)

compute_gamma(k, w_, wi_) ==
    LET expr1 == MatVec(skew(wi_[k]), <<Zero, Zero, robo.qdot[k]>>)
        expr2 == VecScale(Q(1 - robo.sigma[k]), expr1)
        expr3 == VecScale(Q(2 * robo.sigma[k]), expr1)
        expr4 == MatVec(skew(w_[robo.ant[k]]), antPj(k))
        expr5 == MatVec(skew(w_[robo.ant[k]]), expr4)
        expr6 == MatVec(Transpose(antRj(k)), expr5)
        expr7 == VecAdd(expr6, expr3)
    IN  Stack(expr7, expr2)

compute_zeta(k, gamma_, jaj_, qddot_) ==
    VecAdd(gamma_[k], VecScale(qddot_[k], jaj_[k]))

\* kinematics.compute_omega: <<wi[k], w[k]>>
compute_omega(k, w_) ==
    LET wik == MatVec(Transpose(antRj(k)), w_[robo.ant[k]])
    IN  <<wik,
          IF robo.sigma[k] = 0 THEN VecAdd(wik, <<Zero, Zero, robo.qdot[k]>>) ELSE wik>>

\* geometry.compute_screw_transform: jTant[k]
compute_screw_transform(k) ==
    LET jRant == Transpose(antRj(k))
        ET == MatScale(Q(-1), MatMul(jRant, skew(antPj(k))))
    IN  Blocks(jRant, ET, zeros(3, 3), jRant)

\* the joint axis in screw form chosen in the first forward recursion
joint_axis(k, old) ==
    IF robo.sigma[k] = 0 THEN <<Zero, Zero, Zero, Zero, Zero, One>>
    ELSE IF robo.sigma[k] = 1 THEN <<Zero, Zero, One, Zero, Zero, Zero>>
    ELSE old

\* compute_composite_inertia that leaves the mass of the parent as it was
compute_composite_inertia_own_mass(k, ci3, cms, cmass, cin) ==
    LET i == robo.ant[k]
        i_ms_j_c == MatVec(antRj(k), cms[k])
        expr1 == MatMul(antRj(k), ci3[k])
        expr2 == MatMul(expr1, Transpose(antRj(k)))
        expr3 == MatMul(skew(antPj(k)), skew(i_ms_j_c))
        par == MatScale(cmass[k], MatMul(skew(antPj(k)), Transpose(skew(antPj(k)))))
        ci3n == [ci3 EXCEPT ![i] =
                    MatAdd(ci3[i],
                           MatAdd(MatSub(expr2, MatAdd(expr3, Transpose(expr3))), par))]
        cmsn == [cms EXCEPT ![i] =
                    VecAdd(VecAdd(cms[i], i_ms_j_c), VecScale(cmass[k], antPj(k)))]
    IN  [comp_inertia3 |-> ci3n,
         comp_ms |-> cmsn,
         comp_mass |-> cmass,
         composite_inertia |->
            [cin EXCEPT ![i] = inertia_spatial(ci3n[i], cmsn[i], cmass[i])]]

\* the four containers compute_composite_inertia writes, as a record
compute_composite_inertia(k, ci3, cms, cmass, cin) ==
    LET i == robo.ant[k]
        i_ms_j_c == MatVec(antRj(k), cms[k])
        expr1 == MatMul(antRj(k), ci3[k])
        expr2 == MatMul(expr1, Transpose(antRj(k)))
        expr3 == MatMul(skew(antPj(k)), skew(i_ms_j_c))
        par == MatScale(cmass[k], MatMul(skew(antPj(k)), Transpose(skew(antPj(k)))))
        ci3n == [ci3 EXCEPT ![i] =
                    MatAdd(ci3[i],
                           MatAdd(MatSub(expr2, MatAdd(expr3, Transpose(expr3))), par))]
        cmsn == [cms EXCEPT ![i] =
                    VecAdd(VecAdd(cms[i], i_ms_j_c), VecScale(cmass[k], antPj(k)))]
        cmassn == [cmass EXCEPT ![i] = Add(cmass[i], cmass[k])]
    IN  [comp_inertia3 |-> ci3n,
         comp_ms |-> cmsn,
         comp_mass |-> cmassn,
         composite_inertia |->
            [cin EXCEPT ![i] = inertia_spatial(ci3n[i], cmsn[i], cmassn[i])]]

\* composite_beta after compute_composite_beta
compute_composite_beta(k, jTant_, zeta_, cin, cbeta) ==
    LET i == robo.ant[k]
        expr1 == MatVec(cin[k], zeta_[k])
        expr2 == MatVec(Transpose(jTant_[k]), expr1)
        expr3 == MatVec(Transpose(jTant_[k]), cbeta[k])
    IN  [cbeta EXCEPT ![i] = VecSub(VecAdd(cbeta[i], expr3), expr2)]

\* compute_base_accel_composite that answers no acceleration where Matrix.inv()
\* raises
compute_base_accel_composite_no_raise(cin, cbeta) ==
    IF robo.is_floating
    THEN LET m == inv(cin[0]) IN IF m = <<>> THEN zvec(6) ELSE MatVec(m, cbeta[0])
    ELSE Stack(VecSub(robo.vdot0, robo.G), robo.w0)

\* grandVp[0], or <<>> when Matrix.inv() raises
compute_base_accel_composite(cin, cbeta) ==
    IF robo.is_floating
    THEN LET m == inv(cin[0]) IN IF m = <<>> THEN <<>> ELSE MatVec(m, cbeta[0])
    ELSE Stack(VecSub(robo.vdot0, robo.G), robo.w0)

compute_link_accel(k, jTant_, zeta_, grandVp_) ==
    VecAdd(MatVec(jTant_[k], grandVp_[robo.ant[k]]), zeta_[k])

\* compute_reaction_wrench with the bias wrench added
compute_reaction_wrench_plus(k, grandVp_, inertia, beta_wrench) ==
    VecAdd(MatVec(inertia[k], grandVp_[k]), beta_wrench[k])

compute_reaction_wrench(k, grandVp_, inertia, beta_wrench) ==
    VecSub(MatVec(inertia[k], grandVp_[k]), beta_wrench[k])

\* compute_torque without the rule for fixed joints
compute_torque_any_joint(k, jaj_, react_wrench_) ==
    LET tau_ == Dot(react_wrench_[k], jaj_[k])
        fric_rotor == Add(Add(fric_s(k), fric_v(k)), tau_ia(k))
    IN  Add(tau_, fric_rotor)

compute_torque(k, jaj_, react_wrench_) ==
    IF robo.sigma[k] = 2 THEN Zero
    ELSE LET tau_ == Dot(react_wrench_[k], jaj_[k])
             fric_rotor == Add(Add(fric_s(k), fric_v(k)), tau_ia(k))
         IN  Add(tau_, fric_rotor)


(***************************************************************************)
(* The initial state: a robot model, and no call running.                  *)
(***************************************************************************)
Init ==
    /\ robo \in Robots
    /\ call = "none"
    /\ round_trip = FALSE
    /\ pc = "start"
    /\ j = 0
    /\ w = None /\ wi = None /\ jaj = None /\ grandJ = None
    /\ jTant = None /\ gamma = None /\ beta = None /\ zeta = None
    /\ composite_inertia = None /\ composite_beta = None
    /\ comp_inertia3 = None /\ comp_ms = None /\ comp_mass = None
    /\ h_inv = None /\ jah = None /\ tau = None
    /\ star_inertia = None /\ star_beta = None /\ qddot = None
    /\ grandVp = None /\ react_wrench = None /\ torque = None
    /\ contributed = {} /\ accelerated = {} /\ early_read = FALSE /\ solves = 0
    /\ before_replace = None

\* the containers both calls allocate before their first loop
Allocate ==
    /\ w' = init_w
    /\ wi' = init_vec(3)
    /\ jaj' = init_vec(6)
    /\ grandJ' = init_mat(6)
    /\ jTant' = init_mat(6)
    /\ gamma' = init_vec(6)
    /\ beta' = init_vec(6)
    /\ zeta' = init_vec(6)
    /\ grandVp' = init_vec(6)
    /\ react_wrench' = init_vec(6)
    /\ torque' = init_scalar
    /\ contributed' = {} /\ accelerated' = {} /\ early_read' = FALSE /\ solves' = 0
    /\ before_replace' = None

\* the loops of both calls, each as <<first index, step, last index>>
\* (robots have at least one joint, so no loop is empty)
xrange_1_NL == <<1, 1, NL - 1>>
xrange_0_NL == <<0, 1, NL - 1>>

\* xrange(0, robo.NL) where the code says reversed(xrange(0, robo.NL))
not_reversed_xrange_0_NL == <<0, 1, NL - 1>>

reversed_xrange_0_NL == <<NL - 1, -1, 0>>

\* the next iteration of the running loop, or the first one of the loop after it
Step(loop, after, nextloop) ==
    IF j = loop[3] THEN pc' = after /\ j' = nextloop[1]
    ELSE pc' = pc /\ j' = j + loop[2]

(***************************************************************************)
(* composite_newton_euler(robo, symo)                                      *)
(***************************************************************************)
StartCNE ==
    /\ pc = "start"
    /\ call' = "cne"
    /\ Allocate
    /\ composite_inertia' = init_mat(6)
    /\ composite_beta' = init_vec(6)
    /\ comp_inertia3' = robo.J
    /\ comp_ms' = robo.MS
    /\ comp_mass' = robo.M
    /\ pc' = "K" /\ j' = xrange_1_NL[1]
    /\ UNCHANGED <<robo, round_trip, ddm>>

\* first forward recursion, one link
ForwardKinematics ==
    LET om == compute_omega(j, w)
    IN  /\ grandJ' = [grandJ EXCEPT ![j] = inertia_spatial(robo.J[j], robo.MS[j], robo.M[j])]
        /\ jaj' = [jaj EXCEPT ![j] = joint_axis(j, jaj[j])]
        /\ wi' = [wi EXCEPT ![j] = om[1]]
        /\ w' = [w EXCEPT ![j] = om[2]]
        /\ jTant' = [jTant EXCEPT ![j] = compute_screw_transform(j)]

CNE_K ==
    /\ call = "cne" /\ pc = "K"
    /\ ForwardKinematics
    /\ VecOK(w'[j])
    /\ Step(xrange_1_NL, "B", xrange_1_NL)
    /\ UNCHANGED <<robo, call, round_trip, gamma, beta, zeta, cne, ddm, outs, hist,
                   before_replace>>

\* first forward recursion (still), one link
CNE_B ==
    /\ call = "cne" /\ pc = "B"
    /\ LET g == compute_gamma(j, w, wi)
       IN  /\ gamma' = [gamma EXCEPT ![j] = g]
           /\ zeta' = [zeta EXCEPT ![j] = compute_zeta(j, gamma', jaj, robo.qddot)]
    /\ beta' = [beta EXCEPT ![j] = compute_beta(j, w)]
    /\ VecOK(gamma'[j]) /\ VecOK(beta'[j]) /\ VecOK(zeta'[j])
    /\ Step(xrange_1_NL, "A1", reversed_xrange_0_NL)
    /\ UNCHANGED <<robo, call, round_trip, w, wi, jaj, grandJ, jTant, cne, ddm, outs, hist,
                   before_replace>>

\* first backward recursion - initialisation step, one link.  mat_replace
\* works in place, so grandJ[j] and the aggregate are one matrix.
BaseTerms ==
    /\ before_replace' =
            IF j = 0 THEN inertia_spatial(robo.J[j], robo.MS[j], robo.M[j]) ELSE grandJ[j]
    /\ grandJ' = [grandJ EXCEPT ![j] = mat_replace_symmet(before_replace')]
    /\ beta' = IF j = 0 THEN [beta EXCEPT ![j] = compute_beta(j, w)] ELSE beta

CNE_A1 ==
    /\ call = "cne" /\ pc = "A1"
    /\ BaseTerms
    /\ composite_inertia' = [composite_inertia EXCEPT ![j] = grandJ'[j]]
    /\ composite_beta' = [composite_beta EXCEPT ![j] = beta'[j]]
    /\ MatOK(composite_inertia'[j]) /\ VecOK(composite_beta'[j])
    /\ Step(reversed_xrange_0_NL, "A2", reversed_xrange_0_NL)
    /\ UNCHANGED <<robo, call, round_trip, w, wi, jaj, jTant, gamma, zeta,
                   comp_inertia3, comp_ms, comp_mass, ddm, outs, hist>>

\* second backward recursion, the base: base acceleration
CNE_Base ==
    /\ call = "cne" /\ pc = "A2" /\ j = 0
    /\ LET a == compute_base_accel_composite(composite_inertia, composite_beta)
       IN  IF a = <<>>
           THEN pc' = "error" /\ j' = j /\ UNCHANGED <<grandVp, accelerated>>
           ELSE /\ VecOK(a)
                /\ grandVp' = [grandVp EXCEPT ![0] = a]
                /\ accelerated' = accelerated \cup {0}
                /\ Step(reversed_xrange_0_NL, "F", xrange_1_NL)
    /\ solves' = IF robo.is_floating THEN solves + 1 ELSE solves
    /\ early_read' = (early_read \/ (robo.is_floating /\ ~(Children(0) \subseteq contributed)))
    /\ UNCHANGED <<robo, call, round_trip, kin, cne, ddm, react_wrench, torque, contributed,
                   before_replace>>

\* second backward recursion, one link: compute composite terms
CNE_A2 ==
    /\ call = "cne" /\ pc = "A2" /\ j > 0
    /\ LET i == robo.ant[j]
           r == compute_composite_inertia(j, comp_inertia3, comp_ms, comp_mass,
                                          composite_inertia)
           cb == compute_composite_beta(j, jTant, zeta, r.composite_inertia, composite_beta)
       IN  /\ comp_inertia3' = r.comp_inertia3
           /\ comp_ms' = r.comp_ms
           /\ comp_mass' = r.comp_mass
           /\ before_replace' = r.composite_inertia[i]
           /\ composite_inertia' =
                [r.composite_inertia EXCEPT ![i] = mat_replace_symmet(r.composite_inertia[i])]
           /\ composite_beta' = cb
    /\ MatOK(before_replace')
    /\ MatOK(composite_inertia'[robo.ant[j]]) /\ VecOK(composite_beta'[robo.ant[j]])
    /\ early_read' = (early_read \/ ~(Children(j) \subseteq contributed))
    /\ contributed' = contributed \cup {j}
    /\ Step(reversed_xrange_0_NL, "F", xrange_1_NL)
    /\ UNCHANGED <<robo, call, round_trip, kin, ddm, outs, accelerated, solves>>

\* second forward recursion, one link
CNE_F ==
    /\ call = "cne" /\ pc = "F"
    /\ grandVp' = [grandVp EXCEPT ![j] = compute_link_accel(j, jTant, zeta, grandVp)]
    /\ react_wrench' = [react_wrench EXCEPT ![j] =
            compute_reaction_wrench(j, grandVp', composite_inertia, composite_beta)]
    /\ torque' = [torque EXCEPT ![j] = compute_torque(j, jaj, react_wrench')]
    /\ VecOK(grandVp'[j]) /\ VecOK(react_wrench'[j]) /\ InRange(torque'[j])
    /\ accelerated' = accelerated \cup {j}
    /\ Step(xrange_1_NL, "done", xrange_0_NL)
    /\ UNCHANGED <<robo, call, round_trip, kin, cne, ddm, contributed, early_read, solves,
                   before_replace>>

(***************************************************************************)
(* direct_dynamic_model(robo)                                              *)
(***************************************************************************)
compute_tau(k, jaj_, star_beta_) ==
    IF robo.sigma[k] = 2 THEN Zero
    ELSE LET joint_friction == Add(fric_s(k), fric_v(k))
         IN  Sub(Add(Dot(jaj_[k], star_beta_[k]), robo.GAM[k]), joint_friction)

\* the four containers compute_star_terms writes, as a record, with the
\* contribution to the parent (expr4) as it is before its renaming
compute_star_terms(k, jaj_, jTant_, gamma_, tau_, h_inv_, jah_, sin, sbeta) ==
    LET i == robo.ant[k]
        inertia_jaj == MatVec(sin[k], jaj_[k])
        hk == Recip(Add(Dot(jaj_[k], inertia_jaj), robo.IA[k]))
        jahk == VecScale(hk, inertia_jaj)
        k_inertia == MatSub(sin[k], Outer(jahk, inertia_jaj))
        expr1 == MatVec(k_inertia, gamma_[k])
        expr2 == VecAdd(expr1, VecScale(tau_[k], jahk))
        alpha == VecSub(expr2, sbeta[k])
        expr3 == MatMul(Transpose(jTant_[k]), k_inertia)
        tkt == MatMul(expr3, jTant_[k])
        expr4 == mat_replace_symmet(tkt)
    IN  [tkt |-> tkt,
         h_inv |-> [h_inv_ EXCEPT ![k] = hk],
         jah |-> [jah_ EXCEPT ![k] = jahk],
         star_inertia |-> [sin EXCEPT ![i] = MatAdd(sin[i], expr4)],
         star_beta |-> [sbeta EXCEPT ![i] =
                          VecSub(sbeta[i], MatVec(Transpose(jTant_[k]), alpha))]]

compute_joint_accel(k, jTant_, h_inv_, jah_, gamma_, tau_, grandVp_) ==
    LET i == robo.ant[k]
        expr1 == VecAdd(MatVec(jTant_[k], grandVp_[i]), gamma_[k])
        expr2 == Dot(jah_[k], expr1)
    IN  IF robo.sigma[k] = 2 THEN Zero
        ELSE Sub(Mul(h_inv_[k], tau_[k]), expr2)

\* grandVp[0], or <<>> when Matrix.inv() raises
compute_base_accel(sin, sbeta) ==
    IF robo.is_floating
    THEN LET m == inv(sin[0]) IN IF m = <<>> THEN <<>> ELSE MatVec(m, sbeta[0])
    ELSE Stack(VecSub(robo.vdot0, robo.G), robo.w0)

\* the containers of direct_dynamic_model; those of the other call are gone
AllocateDDM ==
    /\ call' = "ddm"
    /\ Allocate
    /\ h_inv' = init_scalar
    /\ jah' = init_vec(6)
    /\ tau' = init_scalar
    /\ star_inertia' = init_mat(6)
    /\ star_beta' = init_vec(6)
    /\ qddot' = init_scalar
    /\ composite_inertia' = None /\ composite_beta' = None
    /\ comp_inertia3' = None /\ comp_ms' = None /\ comp_mass' = None
    /\ pc' = "K" /\ j' = xrange_1_NL[1]

\* the direct model called with the applied torques robo.GAM of the robot
StartDDM ==
    /\ pc = "start"
    /\ AllocateDDM
    /\ UNCHANGED <<robo, round_trip>>

\* the direct model called with the torques the inverse model has computed
\* as applied torques
StartRoundTrip ==
    /\ call = "cne" /\ pc = "done"
    /\ robo' = [robo EXCEPT !.GAM = torque]
    /\ round_trip' = TRUE
    /\ AllocateDDM

DDM_K ==
    /\ call = "ddm" /\ pc = "K"
    /\ ForwardKinematics
    /\ VecOK(w'[j])
    /\ Step(xrange_1_NL, "B", xrange_1_NL)
    /\ UNCHANGED <<robo, call, round_trip, gamma, beta, zeta, cne, ddm, outs, hist,
                   before_replace>>

DDM_B ==
    /\ call = "ddm" /\ pc = "B"
    /\ gamma' = [gamma EXCEPT ![j] = compute_gamma(j, w, wi)]
    /\ beta' = [beta EXCEPT ![j] = compute_beta(j, w)]
    /\ VecOK(gamma'[j]) /\ VecOK(beta'[j])
    /\ Step(xrange_1_NL, "A1", reversed_xrange_0_NL)
    /\ UNCHANGED <<robo, call, round_trip, w, wi, jaj, grandJ, jTant, zeta,
                   cne, ddm, outs, hist, before_replace>>

DDM_A1 ==
    /\ call = "ddm" /\ pc = "A1"
    /\ BaseTerms
    /\ star_inertia' = [star_inertia EXCEPT ![j] = grandJ'[j]]
    /\ star_beta' = [star_beta EXCEPT ![j] = beta'[j]]
    /\ MatOK(star_inertia'[j]) /\ VecOK(star_beta'[j])
    /\ Step(reversed_xrange_0_NL, "A2", reversed_xrange_0_NL)
    /\ UNCHANGED <<robo, call, round_trip, w, wi, jaj, jTant, gamma, zeta,
                   cne, h_inv, jah, tau, qddot, outs, hist>>

\* second backward recursion, one link: compute star terms (the base is skipped)
DDM_A2 ==
    /\ call = "ddm" /\ pc = "A2"
    /\ IF j = 0
       THEN UNCHANGED <<h_inv, jah, tau, star_inertia, star_beta, contributed, early_read,
                        before_replace>>
       ELSE LET i == robo.ant[j]
                t == [tau EXCEPT ![j] = compute_tau(j, jaj, star_beta)]
                r == compute_star_terms(j, jaj, jTant, gamma, t, h_inv, jah,
                                        star_inertia, star_beta)
            IN  /\ tau' = t
                /\ h_inv' = r.h_inv
                /\ jah' = r.jah
                /\ before_replace' = r.tkt
                /\ star_inertia' =
                     [r.star_inertia EXCEPT ![i] = mat_replace_symmet(r.star_inertia[i])]
                /\ star_beta' = r.star_beta
                /\ InRange(h_inv'[j]) /\ VecOK(jah'[j])
                /\ MatOK(before_replace') /\ MatOK(star_inertia'[i]) /\ VecOK(star_beta'[i])
                /\ early_read' = (early_read \/ ~(Children(j) \subseteq contributed))
                /\ contributed' = contributed \cup {j}
    /\ Step(reversed_xrange_0_NL, "F", xrange_0_NL)
    /\ UNCHANGED <<robo, call, round_trip, kin, cne, qddot, outs, accelerated, solves>>

\* second forward recursion, the base: base acceleration
DDM_Base ==
    /\ call = "ddm" /\ pc = "F" /\ j = 0
    /\ LET a == compute_base_accel(star_inertia, star_beta)
       IN  IF a = <<>>
           THEN pc' = "error" /\ j' = j /\ UNCHANGED <<grandVp, accelerated>>
           ELSE /\ VecOK(a)
                /\ grandVp' = [grandVp EXCEPT ![0] = a]
                /\ accelerated' = accelerated \cup {0}
                /\ Step(xrange_0_NL, "done", xrange_0_NL)
    /\ solves' = IF robo.is_floating THEN solves + 1 ELSE solves
    /\ early_read' = (early_read \/ (robo.is_floating /\ ~(Children(0) \subseteq contributed)))
    /\ UNCHANGED <<robo, call, round_trip, kin, cne, ddm, react_wrench, torque, contributed,
                   before_replace>>

\* second forward recursion, one link
DDM_F ==
    /\ call = "ddm" /\ pc = "F" /\ j > 0
    /\ qddot' = [qddot EXCEPT ![j] =
            compute_joint_accel(j, jTant, h_inv, jah, gamma, tau, grandVp)]
    /\ zeta' = [zeta EXCEPT ![j] = compute_zeta(j, gamma, jaj, qddot')]
    /\ grandVp' = [grandVp EXCEPT ![j] = compute_link_accel(j, jTant, zeta', grandVp)]
    /\ react_wrench' = [react_wrench EXCEPT ![j] =
            compute_reaction_wrench(j, grandVp', star_inertia, star_beta)]
    /\ InRange(qddot'[j]) /\ VecOK(grandVp'[j]) /\ VecOK(react_wrench'[j])
    /\ accelerated' = accelerated \cup {j}
    /\ Step(xrange_0_NL, "done", xrange_0_NL)
    /\ UNCHANGED <<robo, call, round_trip, w, wi, jaj, grandJ, jTant, gamma, beta, cne,
                   h_inv, jah, tau, star_inertia, star_beta, torque,
                   contributed, early_read, solves, before_replace>>

Next ==
    \/ StartCNE
    \/ CNE_K
    \/ CNE_B
    \/ CNE_A1
    \/ CNE_Base
    \/ CNE_A2
    \/ CNE_F
    \/ StartDDM
    \/ StartRoundTrip
    \/ DDM_K
    \/ DDM_B
    \/ DDM_A1
    \/ DDM_A2
    \/ DDM_Base
    \/ DDM_F

Spec == Init /\ [][Next]_vars

(***************************************************************************)
(* Shapes of the robot model.                                              *)
(***************************************************************************)
\* every parent has a smaller index than its child
Ordered == \A k \in Joints : robo.ant[k] < k

RECURSIVE ReachesBase(_, _)
ReachesBase(k, n) ==
    IF k = 0 THEN TRUE
    ELSE IF n = 0 \/ k \notin Links THEN FALSE
    ELSE ReachesBase(robo.ant[k], n - 1)

\* every link reaches the base through its parents
Acyclic == \A k \in Links : ReachesBase(k, NL)

\* every joint is revolute, prismatic or fixed
KnownKinds == \A k \in Joints : robo.sigma[k] \in {0, 1, 2}

Malformed == ~Acyclic \/ ~KnownKinds

\* no actuator inertia, no friction
NoRotorTerms ==
    \A k \in Joints : IsZero(robo.IA[k]) /\ IsZero(robo.FS[k]) /\ IsZero(robo.FV[k])

\* every link has a rotational inertia
RigidBodies == \A k \in Links : robo.J[k] # zeros(3, 3)

\* the aggregate of the base the running call solves with
BaseInertia == IF call = "cne" THEN composite_inertia[0] ELSE star_inertia[0]
BaseBeta == IF call = "cne" THEN composite_beta[0] ELSE star_beta[0]

MatFinite(A) == \A r \in 1 .. Len(A) : \A c \in 1 .. Len(A[r]) : IsFinite(A[r][c])

(***************************************************************************)
(* C1.  A fixed joint (sigma = 2) has the zero joint axis, the inverse     *)
(* model gives it the torque 0 and the direct model the acceleration 0,    *)
(* whatever the tree and the other inputs.                                 *)
(***************************************************************************)
FixedJointsAreZero ==
    \A k \in Joints :
        robo.sigma[k] = 2 =>
            /\ call # "none" => jaj[k] = zvec(6)
            /\ call = "cne" /\ k \in accelerated => torque[k] = Zero
            /\ call = "ddm" /\ k \in accelerated => qddot[k] = Zero

\* both models have run on a robot with a fixed joint that has friction
FixedJointComputed ==
    /\ call = "ddm" /\ round_trip /\ pc = "done"
    /\ \E k \in Joints :
          robo.sigma[k] = 2 /\ ~IsZero(robo.FS[k]) /\ k \in accelerated

(***************************************************************************)
(* C2.  Where every parent has a smaller index than its child: the         *)
(* aggregate of a link is read only after all its children have            *)
(* contributed to it, the acceleration of the base is computed after the   *)
(* whole aggregation, and the acceleration of a link after the one of its  *)
(* parent.                                                                 *)
(***************************************************************************)
OrderedSweeps ==
    Ordered /\ call # "none" =>
        /\ ~early_read
        /\ pc = "A2" /\ j > 0 => Children(j) \subseteq contributed
        /\ 0 \in accelerated => contributed = Joints
        /\ pc = "F" /\ j > 0 => robo.ant[j] \in accelerated
        /\ \A k \in accelerated \ {0} : robo.ant[k] \in accelerated

\* a call has run to its end on a robot with a link below a link
OrderedChainDone ==
    /\ Ordered /\ pc = "done" /\ accelerated = Links
    /\ \E k \in Joints : robo.ant[k] # 0

(***************************************************************************)
(* C3.  In the inverse model the reaction wrench of a non-fixed joint is   *)
(* composite inertia times link acceleration minus composite bias, and     *)
(* its torque is the projection of that wrench on the joint axis plus      *)
(* friction.                                                               *)
(***************************************************************************)
ReactionAsStated(k) ==
    react_wrench[k] = VecSub(MatVec(composite_inertia[k], grandVp[k]), composite_beta[k])

\* C3 as stated: the torque is the projection plus friction and no other term
TorqueIsProjectionPlusFriction ==
    call = "cne" =>
        \A k \in accelerated \ {0} :
            robo.sigma[k] # 2 =>
                /\ ReactionAsStated(k)
                /\ torque[k] = Add(Dot(jaj[k], react_wrench[k]), Add(fric_s(k), fric_v(k)))

\* C3 as amended: the torque is the projection plus friction plus the torque
\* of the actuator inertia, robo.tau_ia(j)
TorqueIsProjectionPlusRotorTerms ==
    call = "cne" =>
        \A k \in accelerated \ {0} :
            robo.sigma[k] # 2 =>
                /\ ReactionAsStated(k)
                /\ torque[k] = Add(Dot(jaj[k], react_wrench[k]),
                                   Add(Add(fric_s(k), fric_v(k)), tau_ia(k)))

\* the inverse model has run on a robot whose joints have an actuator inertia
TorqueWithActuatorInertia ==
    /\ call = "cne" /\ pc = "done"
    /\ \E k \in accelerated \ {0} :
          robo.sigma[k] # 2 /\ ~IsZero(robo.IA[k]) /\ ~IsZero(robo.qddot[k])

(***************************************************************************)
(* C4.  The acceleration of a fixed base is the prescribed linear          *)
(* acceleration less gravity with the prescribed angular acceleration,     *)
(* and no linear system is solved; the acceleration of a floating base     *)
(* solves aggregated inertia * x = aggregated bias.                        *)
(***************************************************************************)
BaseAccelAsStated ==
    0 \in accelerated =>
        IF robo.is_floating
        THEN MatFinite(BaseInertia) => MatVec(BaseInertia, grandVp[0]) = BaseBeta
        ELSE /\ solves = 0
             /\ grandVp[0] = Stack(VecSub(robo.vdot0, robo.G), robo.wdot0)

(***************************************************************************)
(* C5.  After the aggregation of the inverse model over a robot whose      *)
(* parents have smaller indices, the composite mass of a link is the sum   *)
(* of the masses of the links of its subtree and its composite inertia the *)
(* sum of their spatial inertias, each moved to the frame of the link.     *)
(***************************************************************************)
RECURSIVE InSubtree(_, _)
InSubtree(k, i) == k = i \/ (k > i /\ InSubtree(robo.ant[k], i))

Subtree(i) == {k \in Links : InSubtree(k, i)}

\* the screw transform from frame i to the frame of k, a link of its subtree
RECURSIVE PathTransform(_, _)
PathTransform(k, i) ==
    IF k = i THEN eye(6) ELSE MatMul(jTant[k], PathTransform(robo.ant[k], i))

\* the spatial inertia of link k, expressed in frame i
LinkInertiaIn(k, i) ==
    LET X == PathTransform(k, i)
    IN  MatMul(Transpose(X),
               MatMul(inertia_spatial(robo.J[k], robo.MS[k], robo.M[k]), X))

RECURSIVE SumInertia(_, _)
SumInertia(S, i) ==
    IF S = {} THEN zeros(6, 6)
    ELSE LET k == CHOOSE x \in S : TRUE
         IN  MatAdd(LinkInertiaIn(k, i), SumInertia(S \ {k}, i))

RECURSIVE SumMass(_)
SumMass(S) ==
    IF S = {} THEN Zero
    ELSE LET k == CHOOSE x \in S : TRUE IN Add(robo.M[k], SumMass(S \ {k}))

CompositeIsSubtreeSum ==
    call = "cne" /\ Ordered /\ contributed = Joints =>
        \A i \in Links :
            /\ comp_mass[i] = SumMass(Subtree(i))
            /\ composite_inertia[i] = SumInertia(Subtree(i), i)

\* the aggregation is over, on rigid bodies, one of them below another link
CompositeOfChainAggregated ==
    /\ call = "cne" /\ Ordered /\ contributed = Joints /\ RigidBodies
    /\ \E k \in Joints : robo.ant[k] # 0

(***************************************************************************)
(* C6.  The links having symmetric rotational inertias, every composite    *)
(* inertia and every star inertia is symmetric in every state of the       *)
(* aggregation, and so is every matrix on its way into one, before the     *)
(* symbol manager renames it as a symmetric matrix.                        *)
(***************************************************************************)
AggregatesAreSymmetric ==
    /\ call = "cne" => \A i \in Links : IsSymmetric(composite_inertia[i])
    /\ call = "ddm" => \A i \in Links : IsSymmetric(star_inertia[i])
    /\ before_replace # None => IsSymmetric(before_replace)

\* both aggregations are over on rigid bodies with first moments
AggregatesOfBodiesBuilt ==
    /\ call = "ddm" /\ round_trip /\ contributed = Joints /\ RigidBodies
    /\ star_inertia[0] # zeros(6, 6)

(***************************************************************************)
(* C7.  With no actuator inertia and no friction, the direct model run on  *)
(* the torques of the inverse model gives every non-fixed joint the        *)
(* acceleration the inverse model was given (here: on fixed-base robots   *)
(* of rigid bodies that are well formed, parents first).                   *)
(***************************************************************************)
RoundTripReturnsQddot ==
    /\ call = "ddm" /\ round_trip /\ pc = "done"
    /\ NoRotorTerms /\ RigidBodies /\ Acyclic /\ KnownKinds /\ Ordered
    /\ ~robo.is_floating
    => \A k \in Joints : robo.sigma[k] # 2 => qddot[k] = robo.qddot[k]

(***************************************************************************)
(* C8.  A floating base whose aggregated inertia cannot be inverted makes  *)
(* the call fail at the solve, with no base acceleration, no torque and no *)
(* joint acceleration written after it; a solve that went through was on   *)
(* an invertible aggregate; a fixed base never solves and never fails.     *)
(***************************************************************************)
NullDirections == {x \in [1 .. 6 -> {-1, 0, 1}] : \E c \in 1 .. 6 : x[c] # 0}

Singular(A) ==
    \E x \in NullDirections : MatVec(A, Tup(LAMBDA c : Q(x[c]), 6)) = zvec(6)

MalformedIsRefused == Malformed => pc # "done"

(***************************************************************************)
(* C10.  On a tree in which some child has a smaller index than its        *)
(* parent no call runs to its end having read an aggregate before all      *)
(* children had contributed to it.                                         *)
(***************************************************************************)
UnorderedIsGuarded == Acyclic /\ ~Ordered => ~(early_read /\ pc = "done")

==============================================================================
